---- MODULE Spec2Model ----
(***************************************************************************)
(* RAG orchestration pipeline of the OpenTelemetry chatbot:                *)
(*   server/services/ragService.js   (two copies: the chain-composed one   *)
(*                                    and the sequential one)              *)
(*   server/services/llmProvider.js  (provider registry)                   *)
(* One request at a time is followed through its suspension points (the    *)
(* awaited vector search and the awaited LLM invocation).                  *)
(***************************************************************************)
EXTENDS Integers, Sequences, FiniteSets, TLC

\* TLC keeps the fields of a record in the order in which their names first
\* occur in the module, and sorts a record that lists them otherwise when it is
\* first compared.  The names occur here first, in the order in which every
\* record below lists them, so that no record is ever sorted while in use.
FieldNames ==
    DOMAIN [ openaiKey |-> 0, state |-> 0, pageContent |-> 0, documentsUsed |-> 0,
             absent |-> 0, kind |-> 0, stage |-> 0, pc |-> 0, k |-> 0, role |-> 0,
             success |-> 0, t |-> 0, field |-> 0, key |-> 0, none |-> 0, providers
             |-> 0, file |-> 0, url |-> 0, query |-> 0, documentsIngested |-> 0,
             anthropicKey |-> 0, route |-> 0, inits |-> 0, q |-> 0, response |-> 0,
             data |-> 0, s |-> 0, limited |-> 0, default |-> 0, content |-> 0,
             maxResults |-> 0, results |-> 0, chunksCreated |-> 0, bedrockAccessKeyId
             |-> 0, request |-> 0, error |-> 0, via |-> 0, context |-> 0, parsed |->
             0, title |-> 0, bedrockSecretAccessKey |-> 0, storeOp |-> 0, details |->
             0, retryAfter |-> 0, summary |-> 0, sources |-> 0, question |-> 0,
             production |-> 0, source |-> 0, defaultProvider |-> 0, status |-> 0,
             relevanceScores |-> 0, metadata |-> 0, documentCount |-> 0, count |-> 0,
             maxDocs |-> 0, score |-> 0, chunksAdded |-> 0, body |-> 0,
             availableProviders |-> 0, message |-> 0, provider |-> 0, value |-> 0,
             timestamp |-> 0, maxContextDocs |-> 0, includeContext |-> 0,
             ingestedAt |-> 0, document_id |-> 0, documents |-> 0,
             op |-> 0, phase |-> 0, providerName |-> 0, relevantDocs |-> 0,
             llm |-> 0, llmInput |-> 0, result |-> 0 ]

VARIABLES
    config,          \* credentials present per provider, default provider
    providers,       \* keys of the registry Map, in insertion order
    impl,            \* which copy of ragService.js serves: "chain" | "sequential"
    store,           \* chunks of the collection, in the store's ranking order
    op,              \* "none" | "ask" | "context"
    phase,           \* IDLE, RECEIVED, RETRIEVING, GENERATING, SHAPED, RETURNED, ERROR
    question, providerName, maxContextDocs, includeContext,   \* request arguments
    relevantDocs,    \* the result list of this request's search
    llm,             \* the provider client selected by getProvider
    llmInput,        \* the {context, question} handed to the LLM chain
    genResult,       \* the object generateResponse returned
    result,          \* the value returned to the caller
    error,           \* message of the error thrown to the caller
    cause,           \* history: the underlying failure
    searchCalls,     \* history: similaritySearchWithScore calls of this request
    selectCalls,     \* history: getProvider calls of this request
    invoked,         \* history: providers whose client was invoked, in order
    server,          \* the server process: loading, constructed, initializing, listening, exited
    storeReady,      \* vectorStore.initialize() has succeeded in the server process
    apiKeyEnv,       \* process.env.API_KEY
    http,            \* the HTTP exchange being served, then its response
    ingest,          \* the ingestion script's run
    prev,            \* history: the retrieval of the previous request
    calls            \* the requests in flight at once, each with its own frame

vars == <<config, providers, impl, store, op, phase, question, providerName,
          maxContextDocs, includeContext, relevantDocs, llm, llmInput,
          genResult, result, error, cause, searchCalls, selectCalls, invoked,
          server, storeReady, apiKeyEnv, http, ingest, prev, calls>>

\* what no orchestrator step writes
envVars == <<config, providers, impl, store, server, storeReady, apiKeyEnv>>

\* what only the callers of the orchestrator write
outerVars == <<http, ingest, prev, calls>>

----------------------------------------------------------------------------
(* Bounds *)

MaxStore == 3

----------------------------------------------------------------------------
(* JavaScript values *)

Null == "<null>"
Undefined == "<undefined>"
NoSource == "<undefined>"       \* doc.metadata?.source of a chunk without one

Truthy(v) == v # Null /\ v # Undefined /\ v # ""

\* a default parameter / destructuring default replaces undefined only
DefaultTo(v, d) == IF v = Undefined THEN d ELSE v

\* `${v}` in a template literal
ToStr(v) == IF v = Null THEN "null" ELSE IF v = Undefined THEN "undefined" ELSE v

RECURSIVE Join(_, _)
Join(seq, sep) ==
    IF Len(seq) = 0 THEN ""
    ELSE IF Len(seq) = 1 THEN ToStr(seq[1])
    ELSE ToStr(seq[1]) \o sep \o Join(Tail(seq), sep)

Digit(d) == CASE d = 0 -> "0" [] d = 1 -> "1" [] d = 2 -> "2" [] d = 3 -> "3"
              [] d = 4 -> "4" [] d = 5 -> "5" [] d = 6 -> "6" [] d = 7 -> "7"
              [] d = 8 -> "8" [] d = 9 -> "9"

RECURSIVE NatToStr(_)
NatToStr(n) == IF n < 10 THEN Digit(n) ELSE NatToStr(n \div 10) \o Digit(n % 10)

\* Number.prototype.toFixed(3); a score s stands for the number s / 10000.
\* The nearest multiple of 0.001 is taken, the larger one on a tie.
ToFixed3(s) ==
    LET n == (s + 5) \div 10
        f == n % 1000
    IN NatToStr(n \div 1000) \o "." \o Digit(f \div 100) \o Digit((f \div 10) % 10)
         \o Digit(f % 10)

----------------------------------------------------------------------------
(* Provider registry: llmProvider.js *)

ProviderNames == {"openai", "anthropic", "bedrock"}

Configs == [openaiKey : BOOLEAN, anthropicKey : BOOLEAN,
            bedrockAccessKeyId : BOOLEAN, bedrockSecretAccessKey : BOOLEAN,
            defaultProvider : ProviderNames]

\* mutant: Bedrock is registered as soon as one of its two credentials is set
initializeProvidersEitherKey(c) ==
    (IF c.openaiKey THEN <<"openai">> ELSE <<>>)
    \o (IF c.anthropicKey THEN <<"anthropic">> ELSE <<>>)
    \o (IF c.bedrockAccessKeyId \/ c.bedrockSecretAccessKey THEN <<"bedrock">> ELSE <<>>)

\* the keys set by initializeProviders, in the order of its three blocks
initializeProviders(c) ==
    (IF c.openaiKey THEN <<"openai">> ELSE <<>>)
    \o (IF c.anthropicKey THEN <<"anthropic">> ELSE <<>>)
    \o (IF c.bedrockAccessKeyId /\ c.bedrockSecretAccessKey THEN <<"bedrock">> ELSE <<>>)

Range(seq) == {seq[i] : i \in 1..Len(seq)}

getAvailableProviders == providers

\* the argument as getProvider sees it: the default applies to undefined only
getProviderArg(name) == DefaultTo(name, config.defaultProvider)

getProviderFails(name) == getProviderArg(name) \notin Range(providers)

getProvider(name) == getProviderArg(name)

NoProvidersError == "No LLM providers could be initialized. Check your configuration."

\* states of the server process
Loading == [state |-> "loading", error |-> ""]
Constructed == [state |-> "constructed", error |-> ""]
Initializing == [state |-> "initializing", error |-> ""]
Listening == [state |-> "listening", error |-> ""]
Exited(msg) == [state |-> "exited", error |-> msg]

\* mutant: the message names the supported providers, not the registered ones
getProviderErrorStatic(name) ==
    "LLM provider '" \o ToStr(getProviderArg(name)) \o "' not available. Available providers: "
       \o "openai, anthropic, bedrock"

getProviderError(name) ==
    "LLM provider '" \o ToStr(getProviderArg(name)) \o "' not available. Available providers: "
       \o Join(providers, ", ")

----------------------------------------------------------------------------
(* Vector store adapter: only its interface is used by the orchestrator *)

Catalog ==
    { [pageContent |-> "Use NodeSDK to start tracing.", source |-> "otel-docs", score |-> 8700],
      [pageContent |-> "Spans have attributes.",        source |-> "otel-docs", score |-> 12346],
      [pageContent |-> "Install the collector.",        source |-> "guide",     score |-> 4521],
      [pageContent |-> "Untitled note.",                source |-> NoSource,    score |-> 3995] }

Min(a, b) == IF a < b THEN a ELSE b

\* up to k chunks, in the store's ranking order
similaritySearchWithScore(q, k) == SubSeq(store, 1, Min(k, Len(store)))

Injective(seq) == \A i, j \in 1..Len(seq) : seq[i] = seq[j] => i = j

Stores == UNION { {s \in [1..n -> Catalog] : Injective(s)} : n \in 0..MaxStore }

----------------------------------------------------------------------------
(* RAG orchestrator: ragService.js *)

Sentinel == "No relevant context found in the knowledge base."

SourceOrUnknown(doc) == IF Truthy(doc.source) THEN doc.source ELSE "unknown"

formatBlock(doc) ==
    "Source: " \o SourceOrUnknown(doc) \o " (Relevance: " \o ToFixed3(doc.score) \o ")\n"
       \o doc.pageContent

RECURSIVE joinBlocks(_)
joinBlocks(docs) ==
    IF Len(docs) = 1 THEN formatBlock(docs[1])
    ELSE formatBlock(docs[1]) \o "\n\n---\n\n" \o joinBlocks(Tail(docs))

\* mutant: chunks scoring under 0.4 are left out of the context
formatContextThreshold(docs) ==
    LET kept == SelectSeq(docs, LAMBDA doc : doc.score >= 4000)
    IN IF Len(kept) = 0 THEN Sentinel ELSE joinBlocks(kept)

\* mutant: the empty result list is not special-cased
formatContextNoSentinel(docs) == IF Len(docs) = 0 THEN "" ELSE joinBlocks(docs)

formatContext(docs) == IF Len(docs) = 0 THEN Sentinel ELSE joinBlocks(docs)

\* Set.add keeps the first insertion; Array.from lists in insertion order
SetAdd(seq, v) == IF v \in Range(seq) THEN seq ELSE Append(seq, v)

RECURSIVE extractInto(_, _)
extractInto(acc, docs) ==
    IF Len(docs) = 0 THEN acc
    ELSE extractInto(IF Truthy(docs[1].source) THEN SetAdd(acc, docs[1].source) ELSE acc,
                     Tail(docs))

\* mutant: an array instead of a Set, every chunk's source is pushed
RECURSIVE pushSources(_)
pushSources(docs) ==
    IF Len(docs) = 0 THEN <<>>
    ELSE (IF Truthy(docs[1].source) THEN <<docs[1].source>> ELSE <<>>) \o pushSources(Tail(docs))

extractSourcesNoDedup(docs) == pushSources(docs)

extractSources(docs) == extractInto(<<>>, docs)

\* mutant: chunks without a source get no entry
relevanceScoresSkipUnknown(docs) ==
    LET kept == SelectSeq(docs, LAMBDA doc : Truthy(doc.source))
    IN [i \in 1..Len(kept) |-> [source |-> kept[i].source, score |-> kept[i].score]]

relevanceScores(docs) ==
    [i \in 1..Len(docs) |-> [source |-> SourceOrUnknown(docs[i]), score |-> docs[i].score]]

\* mutant: the first registered provider is reported whatever was requested
metadataProviderFirst(name) == getAvailableProviders[1]

metadataProvider(name) == IF Truthy(name) THEN name ELSE getAvailableProviders[1]

\* mutant: documentsUsed counts the distinct sources
generateResultCountsSources(q, name, docs, response, ts) ==
    [response |-> response,
     context  |-> [documentsUsed   |-> Len(extractSources(docs)),
                   sources         |-> extractSources(docs),
                   relevanceScores |-> relevanceScores(docs)],
     metadata |-> [question |-> q, provider |-> metadataProvider(name), timestamp |-> ts]]

generateResult(q, name, docs, response, ts) ==
    [response |-> response,
     context  |-> [documentsUsed   |-> Len(docs),
                   sources         |-> extractSources(docs),
                   relevanceScores |-> relevanceScores(docs)],
     metadata |-> [question |-> q, provider |-> metadataProvider(name), timestamp |-> ts]]

\* mutant: the full result is returned whatever includeContext says
shapeAnswerAlwaysFull(r, inc) == r

shapeAnswer(r, inc) ==
    IF ~inc
    THEN [response |-> r.response,
          sources  |-> r.context.sources,
          metadata |-> [provider |-> r.metadata.provider, timestamp |-> r.metadata.timestamp]]
    ELSE r

\* mutant: the count is taken from the de-duplicated sources
contextResultCountsSources(docs) ==
    [context |-> formatContext(docs), sources |-> extractSources(docs),
     documentCount |-> Len(extractSources(docs))]

contextResult(docs) ==
    [context |-> formatContext(docs), sources |-> extractSources(docs),
     documentCount |-> Len(docs)]

\* mutant: the underlying message is dropped
wrapErrorGeneric(msg) == "Failed to generate response"

wrapError(msg) == "Failed to generate response: " \o msg

----------------------------------------------------------------------------
(* Inputs *)

DefaultMaxContextDocs == 5
Questions == {"How do I start tracing?"}
ProviderArgs == ProviderNames \cup {Undefined}
DocLimits == {2, DefaultMaxContextDocs}
SearchErrors == {"Failed to connect to ChromaDB"}
LLMErrors == {"401 Incorrect API key provided"}
Replies == {"Call sdk.start()."}
Timestamps == {"2024-01-15T10:30:00.000Z"}

NoResult == [absent |-> TRUE]
NoInput == [absent |-> TRUE]
NoCause == [kind |-> "none", message |-> ""]
NoExchange == [stage |-> "idle"]
NoRun == [pc |-> "idle"]
NoRetrieval == [k |-> 0, q |-> "", via |-> "none", sources |-> <<>>, count |-> 0]

\* the requests that may be in flight together, and the frame of one that
\* is not: askQuestion's arguments and locals live in such a frame
Callers == {"first", "second"}
NoCall == [op |-> "none", phase |-> "IDLE"]

Idle ==
    /\ op = "none" /\ phase = "IDLE"
    /\ question = "" /\ providerName = Null /\ maxContextDocs = 0 /\ includeContext = FALSE
    /\ relevantDocs = <<>> /\ llm = Null /\ llmInput = NoInput
    /\ genResult = NoResult /\ result = NoResult /\ error = "" /\ cause = NoCause
    /\ searchCalls = 0 /\ selectCalls = 0 /\ invoked = <<>>

Init ==
    /\ config \in Configs
    /\ providers = initializeProviders(config)
    /\ impl \in {"chain", "sequential"}
    /\ store \in Stores
    /\ server = (IF Len(providers) > 0 THEN Listening ELSE Exited(NoProvidersError))
    /\ storeReady = (Len(providers) > 0)
    /\ apiKeyEnv = Undefined
    /\ http = NoExchange /\ ingest = NoRun /\ prev = NoRetrieval
    /\ calls = [c \in Callers |-> NoCall]
    /\ Idle

\* the module exports `new LLMProviderService()`: with no provider the
\* constructor throws, the process ends and nothing is served
Serving == server.state = "listening"

----------------------------------------------------------------------------
(* askQuestion *)

\* askQuestion is entered: the options are destructured with their defaults.
\* An omitted maxContextDocs or includeContext is the same call as one that
\* passes DefaultMaxContextDocs or FALSE, which the inputs cover.
AskQuestion(q, p, k, inc) ==
    /\ Serving /\ phase = "IDLE"
    /\ op' = "ask" /\ phase' = "RECEIVED"
    /\ question' = q
    /\ providerName' = DefaultTo(p, Null)
    /\ maxContextDocs' = k
    /\ includeContext' = inc
    /\ UNCHANGED <<relevantDocs, llm, llmInput, genResult, result, error, cause,
                   searchCalls, selectCalls, invoked>>
    /\ UNCHANGED envVars

\* a throw inside generateResponse: rethrown by its catch, wrapped by askQuestion's
Throw(kind, msg) ==
    /\ phase' = "ERROR"
    /\ cause' = [kind |-> kind, message |-> msg]
    /\ error' = wrapError(msg)

\* generateResponse runs to its first await.  The chain copy selects the
\* provider while it builds the chain, before the chain (and so the search)
\* is invoked; the sequential copy starts with the search.
StartRetrieval ==
    /\ op = "ask" /\ phase = "RECEIVED"
    /\ IF impl = "chain"
       THEN /\ selectCalls' = selectCalls + 1
            /\ IF getProviderFails(providerName)
               THEN /\ Throw("provider", getProviderError(providerName))
                    /\ UNCHANGED <<llm, searchCalls>>
               ELSE /\ llm' = getProvider(providerName)
                    /\ searchCalls' = searchCalls + 1
                    /\ phase' = "RETRIEVING"
                    /\ UNCHANGED <<error, cause>>
       ELSE /\ searchCalls' = searchCalls + 1
            /\ phase' = "RETRIEVING"
            /\ UNCHANGED <<llm, selectCalls, error, cause>>
    /\ UNCHANGED <<op, question, providerName, maxContextDocs, includeContext,
                   relevantDocs, llmInput, genResult, result, invoked>>
    /\ UNCHANGED envVars
    /\ UNCHANGED outerVars

\* the LLM chain is invoked with {context, question}
Invoke(client, docs) ==
    /\ llmInput' = [context |-> formatContext(docs), question |-> question]
    /\ invoked' = Append(invoked, client)
    /\ phase' = "GENERATING"

\* the search resolved: format the context, (sequential copy) select the
\* provider, invoke the LLM chain
SearchReturns ==
    /\ op = "ask" /\ phase = "RETRIEVING"
    /\ LET docs == similaritySearchWithScore(question, maxContextDocs) IN
       /\ relevantDocs' = docs
       /\ IF impl = "chain"
          THEN /\ Invoke(llm, docs)
               /\ UNCHANGED <<llm, selectCalls, error, cause>>
          ELSE /\ selectCalls' = selectCalls + 1
               /\ IF getProviderFails(providerName)
                  THEN /\ Throw("provider", getProviderError(providerName))
                       /\ UNCHANGED <<llm, llmInput, invoked>>
                  ELSE /\ llm' = getProvider(providerName)
                       /\ Invoke(getProvider(providerName), docs)
                       /\ UNCHANGED <<error, cause>>
    /\ UNCHANGED <<op, question, providerName, maxContextDocs, includeContext,
                   genResult, result, searchCalls>>
    /\ UNCHANGED envVars
    /\ UNCHANGED outerVars

\* the search rejected
SearchFails(msg) ==
    /\ op = "ask" /\ phase = "RETRIEVING"
    /\ Throw("search", msg)
    /\ UNCHANGED <<op, question, providerName, maxContextDocs, includeContext,
                   relevantDocs, llm, llmInput, genResult, result,
                   searchCalls, selectCalls, invoked>>
    /\ UNCHANGED envVars
    /\ UNCHANGED outerVars

\* the LLM replied: generateResponse builds and returns its result object
\* mutant: the result's fields are computed from a second search, made when
\* the LLM has replied
LLMRepliesSearchesAgain(text, ts) ==
    /\ op = "ask" /\ phase = "GENERATING"
    /\ genResult' = generateResult(question, providerName,
                                   similaritySearchWithScore(question, maxContextDocs),
                                   text, ts)
    /\ searchCalls' = searchCalls + 1
    /\ phase' = "SHAPED"
    /\ UNCHANGED <<op, question, providerName, maxContextDocs, includeContext,
                   relevantDocs, llm, llmInput, result, error, cause,
                   selectCalls, invoked>>
    /\ UNCHANGED envVars
    /\ UNCHANGED outerVars

LLMReplies(text, ts) ==
    /\ op = "ask" /\ phase = "GENERATING"
    /\ genResult' = generateResult(question, providerName, relevantDocs, text, ts)
    /\ phase' = "SHAPED"
    /\ UNCHANGED <<op, question, providerName, maxContextDocs, includeContext,
                   relevantDocs, llm, llmInput, result, error, cause,
                   searchCalls, selectCalls, invoked>>
    /\ UNCHANGED envVars
    /\ UNCHANGED outerVars

\* mutant: a rejected invocation is tried once more on the first registered
\* provider before the error is thrown
LLMFailsWithFallback(msg) ==
    /\ op = "ask" /\ phase = "GENERATING"
    /\ IF Len(invoked) < 2
       THEN /\ invoked' = Append(invoked, getAvailableProviders[1])
            /\ UNCHANGED <<phase, error, cause>>
       ELSE /\ Throw("llm", msg)
            /\ UNCHANGED invoked
    /\ UNCHANGED <<op, question, providerName, maxContextDocs, includeContext,
                   relevantDocs, llm, llmInput, genResult, result,
                   searchCalls, selectCalls>>
    /\ UNCHANGED envVars
    /\ UNCHANGED outerVars

\* the LLM invocation rejected
LLMFails(msg) ==
    /\ op = "ask" /\ phase = "GENERATING"
    /\ Throw("llm", msg)
    /\ UNCHANGED <<op, question, providerName, maxContextDocs, includeContext,
                   relevantDocs, llm, llmInput, genResult, result,
                   searchCalls, selectCalls, invoked>>
    /\ UNCHANGED envVars
    /\ UNCHANGED outerVars

\* askQuestion resumes with generateResponse's result and returns
Return ==
    /\ op = "ask" /\ phase = "SHAPED"
    /\ result' = shapeAnswer(genResult, includeContext)
    /\ phase' = "RETURNED"
    /\ UNCHANGED <<op, question, providerName, maxContextDocs, includeContext,
                   relevantDocs, llm, llmInput, genResult, error, cause,
                   searchCalls, selectCalls, invoked>>
    /\ UNCHANGED envVars
    /\ UNCHANGED outerVars

----------------------------------------------------------------------------
(* getContextForQuestion *)

GetContextForQuestion(q, k) ==
    /\ Serving /\ phase = "IDLE"
    /\ op' = "context" /\ phase' = "RETRIEVING"
    /\ question' = q
    /\ maxContextDocs' = k
    /\ searchCalls' = searchCalls + 1
    /\ UNCHANGED <<providerName, includeContext, relevantDocs, llm, llmInput,
                   genResult, result, error, cause, selectCalls, invoked>>
    /\ UNCHANGED envVars

ContextSearchReturns ==
    /\ op = "context" /\ phase = "RETRIEVING"
    /\ LET docs == similaritySearchWithScore(question, maxContextDocs) IN
       /\ relevantDocs' = docs
       /\ result' = contextResult(docs)
    /\ phase' = "RETURNED"
    /\ UNCHANGED <<op, question, providerName, maxContextDocs, includeContext,
                   llm, llmInput, genResult, error, cause,
                   searchCalls, selectCalls, invoked>>
    /\ UNCHANGED envVars
    /\ UNCHANGED outerVars

\* the catch rethrows the error as it is
ContextSearchFails(msg) ==
    /\ op = "context" /\ phase = "RETRIEVING"
    /\ phase' = "ERROR"
    /\ cause' = [kind |-> "search", message |-> msg]
    /\ error' = msg
    /\ UNCHANGED <<op, question, providerName, maxContextDocs, includeContext,
                   relevantDocs, llm, llmInput, genResult, result,
                   searchCalls, selectCalls, invoked>>
    /\ UNCHANGED envVars
    /\ UNCHANGED outerVars

----------------------------------------------------------------------------
(* testProvider *)

TestMessage == <<[role |-> "user", content |-> "Hello, this is a test message."]>>

\* testProvider runs to its await: getProvider, then provider.invoke; a throw
\* of getProvider is caught and returned as data
TestProvider(name) ==
    /\ Serving /\ phase = "IDLE"
    /\ op' = "test"
    /\ providerName' = name
    /\ selectCalls' = selectCalls + 1
    /\ IF getProviderFails(name)
       THEN /\ cause' = [kind |-> "provider", message |-> getProviderError(name)]
            /\ result' = [success |-> FALSE, error |-> getProviderError(name)]
            /\ phase' = "RETURNED"
            /\ UNCHANGED <<llm, llmInput, invoked>>
       ELSE /\ llm' = getProvider(name)
            /\ llmInput' = TestMessage
            /\ invoked' = Append(invoked, getProvider(name))
            /\ phase' = "GENERATING"
            /\ UNCHANGED <<cause, result>>
    /\ UNCHANGED <<question, maxContextDocs, includeContext, relevantDocs,
                   genResult, error, searchCalls>>
    /\ UNCHANGED envVars

\* the provider replied: response.content is returned
TestReplies(text) ==
    /\ op = "test" /\ phase = "GENERATING"
    /\ result' = [success |-> TRUE, response |-> text]
    /\ phase' = "RETURNED"
    /\ UNCHANGED <<op, question, providerName, maxContextDocs, includeContext,
                   relevantDocs, llm, llmInput, genResult, error, cause,
                   searchCalls, selectCalls, invoked>>
    /\ UNCHANGED envVars
    /\ UNCHANGED outerVars

\* mutant: the rejection is rethrown to the caller
TestFailsThrows(msg) ==
    /\ op = "test" /\ phase = "GENERATING"
    /\ cause' = [kind |-> "llm", message |-> msg]
    /\ error' = msg
    /\ phase' = "ERROR"
    /\ UNCHANGED <<op, question, providerName, maxContextDocs, includeContext,
                   relevantDocs, llm, llmInput, genResult, result,
                   searchCalls, selectCalls, invoked>>
    /\ UNCHANGED envVars
    /\ UNCHANGED outerVars

\* mutant: a provider whose test failed is dropped from the registry
TestFailsEvicts(msg) ==
    /\ op = "test" /\ phase = "GENERATING"
    /\ cause' = [kind |-> "llm", message |-> msg]
    /\ result' = [success |-> FALSE, error |-> msg]
    /\ phase' = "RETURNED"
    /\ providers' = SelectSeq(providers, LAMBDA p : p # llm)
    /\ UNCHANGED <<op, question, providerName, maxContextDocs, includeContext,
                   relevantDocs, llm, llmInput, genResult, error,
                   searchCalls, selectCalls, invoked>>
    /\ UNCHANGED <<config, impl, store, server, storeReady, apiKeyEnv>>
    /\ UNCHANGED outerVars

\* the invocation rejected: the catch returns the message as data
TestFails(msg) ==
    /\ op = "test" /\ phase = "GENERATING"
    /\ cause' = [kind |-> "llm", message |-> msg]
    /\ result' = [success |-> FALSE, error |-> msg]
    /\ phase' = "RETURNED"
    /\ UNCHANGED <<op, question, providerName, maxContextDocs, includeContext,
                   relevantDocs, llm, llmInput, genResult, error,
                   searchCalls, selectCalls, invoked>>
    /\ UNCHANGED envVars
    /\ UNCHANGED outerVars

----------------------------------------------------------------------------

\* the caller has taken the result or the error; the next request may come
Finish ==
    /\ phase \in {"RETURNED", "ERROR"}
    /\ op' = "none" /\ phase' = "IDLE"
    /\ question' = "" /\ providerName' = Null /\ maxContextDocs' = 0
    /\ includeContext' = FALSE
    /\ relevantDocs' = <<>> /\ llm' = Null /\ llmInput' = NoInput
    /\ genResult' = NoResult /\ result' = NoResult /\ error' = "" /\ cause' = NoCause
    /\ searchCalls' = 0 /\ selectCalls' = 0 /\ invoked' = <<>>
    /\ UNCHANGED envVars

----------------------------------------------------------------------------

\* names a caller may pass to testProvider
TestNames == ProviderNames \cup {"mistral"}

\* the orchestrator and the registry called directly, one call at a time
Steps ==
    \/ \E q \in Questions, p \in ProviderArgs, k \in DocLimits, inc \in BOOLEAN :
          AskQuestion(q, p, k, inc) /\ UNCHANGED outerVars
    \/ StartRetrieval
    \/ SearchReturns
    \/ \E m \in SearchErrors : SearchFails(m)
    \/ \E t \in Replies, ts \in Timestamps : LLMReplies(t, ts)
    \/ \E m \in LLMErrors : LLMFails(m)
    \/ Return
    \/ \E q \in Questions, k \in DocLimits :
          GetContextForQuestion(q, k) /\ UNCHANGED outerVars
    \/ ContextSearchReturns
    \/ \E m \in SearchErrors : ContextSearchFails(m)
    \/ \E n \in TestNames : TestProvider(n) /\ UNCHANGED outerVars
    \/ \E t \in Replies : TestReplies(t)
    \/ \E m \in LLMErrors : TestFails(m)

Next ==
    \/ Steps
    \/ Finish /\ UNCHANGED outerVars

Spec == Init /\ [][Next]_vars

----------------------------------------------------------------------------
(* The same calls, with the retrieval of the previous call remembered *)

\* what the caller of the finished call saw of its retrieval
Retrieval ==
    IF op = "ask" /\ phase = "RETURNED"
    THEN [k |-> maxContextDocs, q |-> question, via |-> "ask",
          sources |-> genResult.context.sources, count |-> genResult.context.documentsUsed]
    ELSE IF op = "context" /\ phase = "RETURNED"
    THEN [k |-> maxContextDocs, q |-> question, via |-> "context",
          sources |-> result.sources, count |-> result.documentCount]
    ELSE prev

FinishRemember ==
    /\ Finish
    /\ prev' = Retrieval
    /\ UNCHANGED <<http, ingest, calls>>

RepeatNext ==
    \/ Steps
    \/ FinishRemember

RepeatSpec == Init /\ [][RepeatNext]_vars

----------------------------------------------------------------------------
(* The server process: index.js, middleware/auth.js, middleware/validation.js
   and the routes of routes/chat.js *)

\* the variables of the request the orchestrator is working on
callVars == <<op, phase, question, providerName, maxContextDocs, includeContext,
              relevantDocs, llm, llmInput, genResult, result, error, cause,
              searchCalls, selectCalls, invoked>>

\* values of process.env.API_KEY and of the X-API-Key header
ApiKeyEnvs == {Undefined, "secret"}
HeaderKeys == {Undefined, "secret", "wrong"}

ConfigErrors == {"Missing required environment variables"}

\* mutant: the constructor logs the empty registry instead of throwing
LoadModulesTolerant ==
    /\ server = Loading
    /\ providers' = initializeProviders(config)
    /\ server' = Constructed
    /\ UNCHANGED <<config, impl, store, storeReady, apiKeyEnv>>
    /\ UNCHANGED callVars
    /\ UNCHANGED outerVars

\* llmProvider.js is imported: its last line constructs the registry, and a
\* throw of the constructor ends the process before index.js runs a line
LoadModules ==
    /\ server = Loading
    /\ IF Len(initializeProviders(config)) = 0
       THEN /\ server' = Exited(NoProvidersError)
            /\ UNCHANGED providers
       ELSE /\ providers' = initializeProviders(config)
            /\ server' = Constructed
    /\ UNCHANGED <<config, impl, store, storeReady, apiKeyEnv>>
    /\ UNCHANGED callVars
    /\ UNCHANGED outerVars

\* start() -> initialize(): validateConfig() returns or throws; a throw is
\* rethrown to start(), whose catch ends the process
StartServer(valid, msg) ==
    /\ server = Constructed
    /\ server' = (IF valid THEN Initializing ELSE Exited(msg))
    /\ UNCHANGED <<config, providers, impl, store, storeReady, apiKeyEnv>>
    /\ UNCHANGED callVars
    /\ UNCHANGED outerVars

\* mutant: a failed vectorStore.initialize() is logged and the server listens
StoreInitializedAnyway(ok, msg) ==
    /\ server = Initializing
    /\ storeReady' = ok
    /\ server' = Listening
    /\ UNCHANGED <<config, providers, impl, store, apiKeyEnv>>
    /\ UNCHANGED callVars
    /\ UNCHANGED outerVars

\* initializeServices(): `await vectorStore.initialize()` settles; after it the
\* middleware and routes are set up synchronously and app.listen is called
StoreInitialized(ok, msg) ==
    /\ server = Initializing
    /\ storeReady' = ok
    /\ server' = (IF ok THEN Listening ELSE Exited(msg))
    /\ UNCHANGED <<config, providers, impl, store, apiKeyEnv>>
    /\ UNCHANGED callVars
    /\ UNCHANGED outerVars

----------------------------------------------------------------------------
(* JSON values and the validators of express-validator *)

\* a value of a request body: its JSON type and String(value), the text the
\* standard validators are applied to (absent and null both give "").
\* (The fields of constant records are listed in the order TLC keeps them.)
Absent == [t |-> "absent", s |-> ""]
JsonNull == [t |-> "null", s |-> ""]
Str(x) == [t |-> "string", s |-> x]
Num(x) == [t |-> "number", s |-> x]
Bool(x) == [t |-> "boolean", s |-> x]

\* truthiness of the value itself, as `!includeContext` sees it
JsTruthy(v) ==
    CASE v.t = "boolean" -> v.s = "true"
      [] v.t = "string" -> v.s # ""
      [] v.t = "number" -> v.s # "0"
      [] OTHER -> FALSE

RECURSIVE TrimLeft(_)
TrimLeft(s) ==
    IF Len(s) > 0 /\ SubSeq(s, 1, 1) = " " THEN TrimLeft(SubSeq(s, 2, Len(s))) ELSE s

RECURSIVE TrimRight(_)
TrimRight(s) ==
    IF Len(s) > 0 /\ SubSeq(s, Len(s), Len(s)) = " "
    THEN TrimRight(SubSeq(s, 1, Len(s) - 1)) ELSE s

Trim(s) == TrimRight(TrimLeft(s))

isLength(s, min, max) == Len(s) >= min /\ Len(s) <= max

DigitValue(c) ==
    CASE c = "0" -> 0 [] c = "1" -> 1 [] c = "2" -> 2 [] c = "3" -> 3 [] c = "4" -> 4
      [] c = "5" -> 5 [] c = "6" -> 6 [] c = "7" -> 7 [] c = "8" -> 8 [] c = "9" -> 9

Unsigned(s) ==
    IF Len(s) > 0 /\ SubSeq(s, 1, 1) \in {"-", "+"} THEN SubSeq(s, 2, Len(s)) ELSE s

\* validator.js isInt: /^[-+]?(0|[1-9][0-9]*)$/
IsIntString(s) ==
    LET u == Unsigned(s)
    IN  /\ Len(u) > 0
        /\ \A i \in 1..Len(u) : SubSeq(u, i, i) \in {NatToStr(d) : d \in 0..9}
        /\ Len(u) > 1 => SubSeq(u, 1, 1) # "0"

RECURSIVE ParseNat(_)
ParseNat(u) ==
    IF Len(u) = 0 THEN 0
    ELSE ParseNat(SubSeq(u, 1, Len(u) - 1)) * 10 + DigitValue(SubSeq(u, Len(u), Len(u)))

parseInt(s) ==
    IF Len(s) > 0 /\ SubSeq(s, 1, 1) = "-" THEN 0 - ParseNat(Unsigned(s))
    ELSE ParseNat(Unsigned(s))

isInt(s, min, max) == IsIntString(s) /\ parseInt(s) >= min /\ parseInt(s) <= max

\* validator.js isBoolean, not strict
isBoolean(s) == s \in {"true", "false", "1", "0"}

ValidationEntry(field, msg, v) == [field |-> field, message |-> msg, value |-> v]

\* the four chains of validateChatMessage; .optional() skips an absent field only
validateChatMessage(b) ==
    (IF isLength(Trim(b.message.s), 1, 2000) THEN <<>>
     ELSE <<ValidationEntry("message", "Message must be between 1 and 2000 characters",
                            Str(Trim(b.message.s)))>>)
    \o (IF b.provider.t = "absent" \/ b.provider.s \in {"openai", "anthropic", "bedrock"}
        THEN <<>>
        ELSE <<ValidationEntry("provider",
                               "Provider must be one of: openai, anthropic, bedrock",
                               b.provider)>>)
    \o (IF b.maxContextDocs.t = "absent" \/ isInt(b.maxContextDocs.s, 1, 10) THEN <<>>
        ELSE <<ValidationEntry("maxContextDocs",
                               "maxContextDocs must be an integer between 1 and 10",
                               b.maxContextDocs)>>)
    \o (IF b.includeContext.t = "absent" \/ isBoolean(b.includeContext.s) THEN <<>>
        ELSE <<ValidationEntry("includeContext", "includeContext must be a boolean",
                               b.includeContext)>>)

\* handleValidationErrors
ValidationFailed(errs) == [error |-> "Validation failed", details |-> errs]

----------------------------------------------------------------------------
(* One HTTP exchange at a time: middleware of setupMiddleware, then the route *)

Pass == [status |-> 0]

\* the global error handler: config.nodeEnv decides what it tells
InternalError(production, msg) ==
    [success |-> FALSE, error |-> (IF production THEN "Internal server error" ELSE msg)]

\* mutant: only a wrong key is rejected, a missing one passes
validateApiKeyAllowsMissing(key) == Truthy(apiKeyEnv) /\ Truthy(key) /\ key # apiKeyEnv

\* validateApiKey answers 401
validateApiKeyRejects(key) == Truthy(apiKeyEnv) /\ (~Truthy(key) \/ key # apiKeyEnv)

\* express.json, rateLimiter and validateApiKey in the order they are mounted:
\* the response of the first one that ends the exchange, or Pass
Gate(req) ==
    IF ~req.parsed THEN [status |-> 500, body |-> InternalError(req.production, "Unexpected token } in JSON at position 12")]
    ELSE IF req.limited
    THEN [status |-> 429,
          body |-> [error |-> "Too many requests from this IP, please try again later.",
                    retryAfter |-> 900]]
    ELSE IF validateApiKeyRejects(req.key)
    THEN [status |-> 401, body |-> [error |-> "Invalid or missing API key"]]
    ELSE Pass

Handling(route, req) ==
    [stage |-> "handling", route |-> route, request |-> req, storeOp |-> "none"]

Responded(route, req, status, body) ==
    [stage |-> "responded", route |-> route, request |-> req, storeOp |-> "none",
     status |-> status, body |-> body, documents |-> <<>>]

\* what a request carries besides its body or query: its X-API-Key header,
\* whether it exceeds the rate limit, whether express.json can parse its body
Envelope(key, limited, parsed) == [key |-> key, limited |-> limited, parsed |-> parsed]

Envelopes == {Envelope(k, FALSE, TRUE) : k \in HeaderKeys}
             \cup {Envelope(k, TRUE, TRUE) : k \in {Undefined, "secret"}}

Plain == Envelope("secret", FALSE, TRUE)

\* a body that is not JSON comes with any key, within the limit
Unparsed == {Envelope(k, FALSE, FALSE) : k \in {Undefined, "secret"}}

With(env, production, payload) ==
    [key |-> env.key, limited |-> env.limited, parsed |-> env.parsed,
     production |-> production, body |-> payload]

Accepting == Serving /\ http = NoExchange /\ phase = "IDLE"

\* the response is sent: requestLogger's 'finish' listener logs the exchange
HttpFinished ==
    /\ http.stage = "responded"
    /\ http' = NoExchange
    /\ UNCHANGED callVars
    /\ UNCHANGED envVars
    /\ UNCHANGED <<ingest, prev, calls>>

\* the exchange ends without the orchestrator
Answer(route, req, status, body) ==
    /\ http' = Responded(route, req, status, body)
    /\ UNCHANGED callVars
    /\ UNCHANGED envVars

RECURSIVE Repeat(_, _)
Repeat(s, n) ==
    IF n = 0 THEN ""
    ELSE IF n % 2 = 1 THEN Repeat(s, n - 1) \o s
    ELSE LET h == Repeat(s, n \div 2) IN h \o h

BaseBody ==
    [message |-> Str("How do I start tracing?"), provider |-> Absent,
     maxContextDocs |-> Absent, includeContext |-> Absent]

\* bodies of POST /api/chat: each field absent, valid, invalid, and of the
\* wrong JSON type with a text the validator accepts
ChatBodies ==
    { [BaseBody EXCEPT !.provider = p] :
        p \in {Absent, JsonNull, Str("openai"), Str("anthropic"), Str("bedrock"),
               Str("mistral")} }
    \cup { [BaseBody EXCEPT !.provider = Str("openai"), !.maxContextDocs = k] :
        k \in {Num("2"), Num("0"), Num("11"), Num("2.5"), Str("5"), Str("five")} }
    \cup { [BaseBody EXCEPT !.provider = Str("openai"), !.includeContext = i] :
        i \in {Bool("true"), Bool("false"), Str("false"), Str("yes"), Num("1")} }
    \cup { [BaseBody EXCEPT !.provider = Str("openai"), !.message = m] :
        m \in {Absent, Str(""), Str("   "), Str("  How do I start tracing? "),
               Str(Repeat("x", 2000)), Str(Repeat("x", 2001))} }
    \cup { [BaseBody EXCEPT !.message = Str(""), !.provider = Str("mistral")] }

ChatRoute == "POST /api/chat"

\* POST /api/chat up to the await of askQuestion
HttpChat(req) ==
    /\ Accepting
    /\ LET b == req.body
       IN IF Gate(req) # Pass
          THEN Answer(ChatRoute, req, Gate(req).status, Gate(req).body)
          ELSE IF Len(validateChatMessage(b)) > 0
          THEN Answer(ChatRoute, req, 400, ValidationFailed(validateChatMessage(b)))
          ELSE /\ AskQuestion(Trim(b.message.s),
                              IF b.provider.t = "absent" THEN Null ELSE b.provider.s,
                              IF b.maxContextDocs.t = "absent" THEN DefaultMaxContextDocs
                              ELSE parseInt(b.maxContextDocs.s),
                              IF b.includeContext.t = "absent" THEN FALSE
                              ELSE JsTruthy(b.includeContext))
               /\ http' = Handling(ChatRoute, req)
    /\ UNCHANGED <<ingest, prev, calls>>

\* askQuestion settled: res.json of the try block, or the catch block
HttpChatResponds ==
    /\ http.stage = "handling" /\ http.route = ChatRoute
    /\ phase \in {"RETURNED", "ERROR"}
    /\ http' = (IF phase = "RETURNED"
                THEN Responded(ChatRoute, http.request, 200,
                               [success |-> TRUE, data |-> result])
                ELSE Responded(ChatRoute, http.request, 500,
                               [success |-> FALSE, error |-> "Failed to generate response",
                                message |-> error]))
    /\ Finish
    /\ UNCHANGED <<ingest, prev, calls>>

ContextRoute == "GET /api/chat/context"

ContextQueries == [question : {Undefined, "", "How do I start tracing?"},
                   maxDocs : {Undefined, "2"}]

\* GET /api/chat/context up to the await of getContextForQuestion
HttpContext(req) ==
    /\ Accepting
    /\ IF Gate(req) # Pass
       THEN Answer(ContextRoute, req, Gate(req).status, Gate(req).body)
       ELSE IF ~Truthy(req.body.question)
       THEN Answer(ContextRoute, req, 400,
                   [success |-> FALSE, error |-> "Question parameter is required"])
       ELSE /\ GetContextForQuestion(req.body.question,
                                     IF req.body.maxDocs = Undefined
                                     THEN DefaultMaxContextDocs
                                     ELSE parseInt(req.body.maxDocs))
            /\ http' = Handling(ContextRoute, req)
    /\ UNCHANGED <<ingest, prev, calls>>

HttpContextResponds ==
    /\ http.stage = "handling" /\ http.route = ContextRoute
    /\ phase \in {"RETURNED", "ERROR"}
    /\ http' = (IF phase = "RETURNED"
                THEN Responded(ContextRoute, http.request, 200,
                               [success |-> TRUE, data |-> result])
                ELSE Responded(ContextRoute, http.request, 500,
                               [success |-> FALSE, error |-> "Failed to retrieve context",
                                message |-> error]))
    /\ Finish
    /\ UNCHANGED <<ingest, prev, calls>>

TestRoute == "POST /api/chat/test-provider"

TestBodies == {[provider |-> Absent], [provider |-> Str("")]}
              \cup {[provider |-> Str(n)] : n \in TestNames}

\* POST /api/chat/test-provider up to the await of testProvider
HttpTestProvider(req) ==
    /\ Accepting
    /\ IF Gate(req) # Pass
       THEN Answer(TestRoute, req, Gate(req).status, Gate(req).body)
       ELSE IF ~JsTruthy(req.body.provider)
       THEN Answer(TestRoute, req, 400,
                   [success |-> FALSE, error |-> "Provider parameter is required"])
       ELSE /\ TestProvider(req.body.provider.s)
            /\ http' = Handling(TestRoute, req)
    /\ UNCHANGED <<ingest, prev, calls>>

HttpTestResponds ==
    /\ http.stage = "handling" /\ http.route = TestRoute
    /\ phase \in {"RETURNED", "ERROR"}
    /\ http' = (IF phase = "RETURNED"
                THEN Responded(TestRoute, http.request, 200,
                               [success |-> TRUE, data |-> result])
                ELSE Responded(TestRoute, http.request, 500,
                               [success |-> FALSE, error |-> "Failed to test provider",
                                message |-> error]))
    /\ Finish
    /\ UNCHANGED <<ingest, prev, calls>>

NoPayload == [none |-> TRUE]

\* GET /api/chat/providers
HttpProviders(req) ==
    /\ Accepting
    /\ IF Gate(req) # Pass
       THEN Answer("GET /api/chat/providers", req, Gate(req).status, Gate(req).body)
       ELSE Answer("GET /api/chat/providers", req, 200,
                   [success |-> TRUE,
                    data |-> [providers |-> getAvailableProviders,
                              default |-> IF Truthy(config.defaultProvider)
                                          THEN config.defaultProvider ELSE Null]])
    /\ UNCHANGED <<ingest, prev, calls>>

\* GET /api/health
HttpHealth(req) ==
    /\ Accepting
    /\ IF Gate(req) # Pass
       THEN Answer("GET /api/health", req, Gate(req).status, Gate(req).body)
       ELSE Answer("GET /api/health", req, 200,
                   [status |-> "healthy", availableProviders |-> getAvailableProviders])
    /\ UNCHANGED <<ingest, prev, calls>>

UnknownPaths == {"GET /api/unknown", "POST /api/unknown"}

\* no route matches: in production app.get('*') serves the client for a GET,
\* otherwise the /api/* handler answers 404
HttpUnknown(path, req) ==
    /\ Accepting
    /\ IF Gate(req) # Pass
       THEN Answer(path, req, Gate(req).status, Gate(req).body)
       ELSE IF req.production /\ path = "GET /api/unknown"
       THEN Answer(path, req, 200, [file |-> "index.html"])
       ELSE Answer(path, req, 404, [success |-> FALSE, error |-> "API endpoint not found"])
    /\ UNCHANGED <<ingest, prev, calls>>

----------------------------------------------------------------------------
(* The routes of routes/admin.js: each handler awaits one store operation *)

\* the exchange ends after the handler issued the store operation `storeOp`
AnswerAfter(route, req, storeOp, status, body) ==
    /\ http' = [Responded(route, req, status, body) EXCEPT !.storeOp = storeOp]
    /\ UNCHANGED callVars
    /\ UNCHANGED <<config, providers, impl, server, storeReady, apiKeyEnv>>

AdminChunk ==
    [pageContent |-> "Spans carry attributes and events.", source |-> "internal-docs",
     score |-> 6100]

\* validator.js isURL, reduced to what tells the inputs apart: no space, a dot
RECURSIVE Contains(_, _)
Contains(s, c) ==
    IF Len(s) = 0 THEN FALSE
    ELSE SubSeq(s, 1, 1) = c \/ Contains(SubSeq(s, 2, Len(s)), c)

isURL(s) == Contains(s, ".") /\ ~Contains(s, " ")

\* the request's `metadata`: absent, an "object" (of whose keys title, source
\* and document_id matter here; Undefined is a key the object lacks), or a
\* value that is no object
NoMetadata ==
    [t |-> "absent", title |-> Undefined, source |-> Undefined, document_id |-> Undefined]

\* the metadata of the Document that POST /api/admin/ingest builds; title and
\* source are the values the validation chains trimmed in req.body, and a key
\* of the request's metadata, spread last, replaces the field of its name
ingestMetadata(b, ts) ==
    [url |-> (IF JsTruthy(b.url) THEN b.url.s ELSE Null),
     title |-> (IF b.metadata.title = Undefined THEN Trim(b.title.s)
                ELSE b.metadata.title),
     source |-> (IF b.metadata.source = Undefined THEN Trim(b.source.s)
                 ELSE b.metadata.source),
     ingestedAt |-> ts, document_id |-> b.metadata.document_id]

\* the chains of validateDocumentIngestion
validateDocumentIngestion(b) ==
    (IF b.url.t = "absent" \/ isURL(b.url.s) THEN <<>>
     ELSE <<ValidationEntry("url", "URL must be a valid URL", b.url)>>)
    \o (IF b.content.t = "absent" \/ Len(Trim(b.content.s)) >= 10 THEN <<>>
        ELSE <<ValidationEntry("content", "Content must be at least 10 characters long",
                               Str(Trim(b.content.s)))>>)
    \o (IF isLength(Trim(b.title.s), 1, 200) THEN <<>>
        ELSE <<ValidationEntry("title", "Title must be between 1 and 200 characters",
                               Str(Trim(b.title.s)))>>)
    \o (IF isLength(Trim(b.source.s), 1, 100) THEN <<>>
        ELSE <<ValidationEntry("source", "Source must be between 1 and 100 characters",
                               Str(Trim(b.source.s)))>>)
    \o (IF b.metadata.t \in {"absent", "object"} THEN <<>>
        ELSE <<ValidationEntry("metadata", "Metadata must be an object", Str("notes"))>>)

BaseDocument ==
    [url |-> Absent, content |-> Str(AdminChunk.pageContent), title |-> Str("Spans"),
     source |-> Str(AdminChunk.source), metadata |-> NoMetadata]

IngestBodies ==
    { BaseDocument,
      [BaseDocument EXCEPT !.content = Absent],
      [BaseDocument EXCEPT !.content = Absent, !.url = Str("https://opentelemetry.io/docs")],
      [BaseDocument EXCEPT !.url = Str("not a url")],
      [BaseDocument EXCEPT !.content = Str("too short")],
      [BaseDocument EXCEPT !.title = Absent],
      [BaseDocument EXCEPT !.source = Str("   ")],
      [BaseDocument EXCEPT !.metadata = [NoMetadata EXCEPT !.t = "string"]],
      [BaseDocument EXCEPT !.metadata = [NoMetadata EXCEPT !.t = "object"]],
      [BaseDocument EXCEPT !.metadata = [NoMetadata EXCEPT !.t = "object",
                                                           !.document_id = "doc-7"]],
      [BaseDocument EXCEPT !.metadata = [NoMetadata EXCEPT !.t = "object",
                                                           !.title = "Traces"]] }

StoreErrors == {"Failed to connect to ChromaDB"}

IngestRoute == "POST /api/admin/ingest"

\* POST /api/admin/ingest; addDocuments resolves (ok) or rejects
HttpIngest(req, ok, msg) ==
    /\ Accepting
    /\ LET b == req.body
       IN IF Gate(req) # Pass
          THEN Answer(IngestRoute, req, Gate(req).status, Gate(req).body)
          ELSE IF Len(validateDocumentIngestion(b)) > 0
          THEN Answer(IngestRoute, req, 400, ValidationFailed(validateDocumentIngestion(b)))
          ELSE IF ~JsTruthy(b.content) /\ ~JsTruthy(b.url)
          THEN Answer(IngestRoute, req, 400,
                      [success |-> FALSE, error |-> "Either content or url must be provided"])
          ELSE IF JsTruthy(b.url) /\ ~JsTruthy(b.content)
          THEN Answer(IngestRoute, req, 400,
                      [success |-> FALSE,
                       error |-> "URL ingestion not implemented. Please provide content directly."])
          ELSE \E ts \in Timestamps :
             LET document == [pageContent |-> Trim(b.content.s),
                              metadata |-> ingestMetadata(b, ts)]
                 sent(status, body) ==
                     [Responded(IngestRoute, req, status, body)
                        EXCEPT !.storeOp = "add", !.documents = <<document>>]
             IN /\ IF ok
                   THEN /\ Len(store) < MaxStore
                        /\ store' = Append(store,
                               [AdminChunk EXCEPT !.pageContent = document.pageContent,
                                                  !.source = document.metadata.source])
                        /\ http' = sent(200,
                               [success |-> TRUE,
                                data |-> [title |-> Trim(b.title.s),
                                          source |-> Trim(b.source.s),
                                          chunksAdded |-> 1,
                                          message |-> "Document successfully ingested"]])
                   ELSE /\ UNCHANGED store
                        /\ http' = sent(500,
                               [success |-> FALSE, error |-> "Failed to ingest document",
                                message |-> msg])
                /\ UNCHANGED callVars
                /\ UNCHANGED <<config, providers, impl, server, storeReady, apiKeyEnv>>
    /\ UNCHANGED <<ingest, prev, calls>>

\* GET /api/admin/vector-store/info
HttpStoreInfo(req, ok, msg) ==
    /\ Accepting
    /\ IF Gate(req) # Pass
       THEN Answer("GET /api/admin/vector-store/info", req, Gate(req).status, Gate(req).body)
       ELSE /\ UNCHANGED store
            /\ IF ok
               THEN AnswerAfter("GET /api/admin/vector-store/info", req, "info", 200,
                                [success |-> TRUE, data |-> [count |-> Len(store)]])
               ELSE AnswerAfter("GET /api/admin/vector-store/info", req, "info", 500,
                                [success |-> FALSE,
                                 error |-> "Failed to get vector store information",
                                 message |-> msg])
    /\ UNCHANGED <<ingest, prev, calls>>

\* DELETE /api/admin/vector-store
HttpStoreDelete(req, ok, msg) ==
    /\ Accepting
    /\ IF Gate(req) # Pass
       THEN Answer("DELETE /api/admin/vector-store", req, Gate(req).status, Gate(req).body)
       ELSE IF ok
       THEN /\ store' = <<>>
            /\ AnswerAfter("DELETE /api/admin/vector-store", req, "delete", 200,
                           [success |-> TRUE,
                            data |-> [message |-> "Vector store collection deleted successfully"]])
       ELSE /\ UNCHANGED store
            /\ AnswerAfter("DELETE /api/admin/vector-store", req, "delete", 500,
                           [success |-> FALSE, error |-> "Failed to delete vector store",
                            message |-> msg])
    /\ UNCHANGED <<ingest, prev, calls>>

SearchBodies == [query : {Absent, Str("tracing")}, maxResults : {Absent, Num("2")}]

\* POST /api/admin/search
HttpSearch(req, ok, msg) ==
    /\ Accepting
    /\ IF Gate(req) # Pass
       THEN Answer("POST /api/admin/search", req, Gate(req).status, Gate(req).body)
       ELSE IF ~JsTruthy(req.body.query)
       THEN Answer("POST /api/admin/search", req, 400,
                   [success |-> FALSE, error |-> "Query parameter is required"])
       ELSE /\ UNCHANGED store
            /\ IF ok
               THEN AnswerAfter("POST /api/admin/search", req, "search", 200,
                      [success |-> TRUE,
                       data |-> [query |-> req.body.query.s,
                                 results |-> similaritySearchWithScore(req.body.query.s,
                                     IF req.body.maxResults.t = "absent" THEN 5
                                     ELSE parseInt(req.body.maxResults.s))]])
               ELSE AnswerAfter("POST /api/admin/search", req, "search", 500,
                                [success |-> FALSE, error |-> "Failed to search vector store",
                                 message |-> msg])
    /\ UNCHANGED <<ingest, prev, calls>>

----------------------------------------------------------------------------
(* The ingestion script: scripts/ingest-data.js, a process of its own *)

SampleChunks ==
    << [pageContent |-> "Node.js Express Auto-instrumentation Setup",
        source |-> "otel-docs", score |-> 9100],
       [pageContent |-> "About HNY-AI-Workshop project",
        source |-> "hny-ai-workshop", score |-> 4000] >>

\* title and source of the sample documents that made SampleChunks
sampleDocuments ==
    << [title |-> "Node.js Express Auto-instrumentation Setup", source |-> "otel-docs"],
       [title |-> "About HNY-AI-Workshop project", source |-> "hny-ai-workshop"] >>

\* mutant: the id is made of the time alone
processDocumentNoIndex(doc, index, now) ==
    [pageContent |-> SampleChunks[index + 1].pageContent,
     metadata |-> [url |-> Undefined, title |-> doc.title, source |-> doc.source,
                   ingestedAt |-> NatToStr(now),
                   document_id |-> "doc-" \o NatToStr(now)]]

\* processDocument(doc, index): the Document of the index-th sample
processDocument(doc, index, now) ==
    [pageContent |-> SampleChunks[index + 1].pageContent,
     metadata |-> [url |-> Undefined, title |-> doc.title, source |-> doc.source,
                   ingestedAt |-> NatToStr(now),
                   document_id |-> "doc-" \o NatToStr(now) \o "-" \o NatToStr(index)]]

Run(pc, inits) ==
    [pc |-> pc, inits |-> inits, error |-> "", summary |-> NoResult, documents |-> <<>>]

Failed(msg) == [ingest EXCEPT !.pc = "failed", !.error = msg]

scriptFrame ==
    /\ UNCHANGED <<config, providers, impl, server, storeReady, apiKeyEnv>>
    /\ UNCHANGED callVars
    /\ UNCHANGED <<http, prev, calls>>

\* run() starts: mkdir and saveDocumentsToFile are awaited
IngestRun ==
    /\ ingest = NoRun
    /\ ingest' = Run("files", 0)
    /\ UNCHANGED store
    /\ scriptFrame

\* the files are written and the first initialize() is called, or run() rethrows
IngestSaved(ok, msg) ==
    /\ ingest.pc = "files"
    /\ ingest' = (IF ok THEN [ingest EXCEPT !.pc = "initialize"] ELSE Failed(msg))
    /\ UNCHANGED store
    /\ scriptFrame

\* an initialize() settled: after the first one deleteCollection is issued,
\* after the second one addDocuments (through ingestSampleDocuments)
IngestInitialized(ok, msg) ==
    /\ ingest.pc \in {"initialize", "reinitialize"}
    /\ ingest' = (IF ok
                  THEN [ingest EXCEPT !.pc = (IF ingest.pc = "initialize" THEN "delete" ELSE "add"),
                                      !.inits = ingest.inits + 1]
                  ELSE Failed(msg))
    /\ UNCHANGED store
    /\ scriptFrame

\* mutant: a rejected deleteCollection is rethrown by run()
IngestDeletedAborts(ok) ==
    /\ ingest.pc = "delete"
    /\ store' = (IF ok THEN <<>> ELSE store)
    /\ ingest' = (IF ok THEN [ingest EXCEPT !.pc = "reinitialize"]
                  ELSE Failed("Collection does not exist"))
    /\ scriptFrame

\* deleteCollection settled; `.catch(() => {})` swallows a rejection, and the
\* second initialize() is called
IngestDeleted(ok) ==
    /\ ingest.pc = "delete"
    /\ store' = (IF ok THEN <<>> ELSE store)
    /\ ingest' = [ingest EXCEPT !.pc = "reinitialize"]
    /\ scriptFrame

\* addDocuments settled: the summary is returned, or the error is rethrown
IngestAdded(ok, msg) ==
    /\ ingest.pc = "add"
    \* Date.now() of the first processDocument call; the clock may tick once
    \* before the second
    /\ \E now \in {1000}, tick \in {0, 1} :
          LET documents == << processDocument(sampleDocuments[1], 0, now),
                              processDocument(sampleDocuments[2], 1, now + tick) >>
          IN IF ok
             THEN /\ store' = store \o SampleChunks
                  /\ ingest' = [ingest EXCEPT !.pc = "done",
                                    !.summary = [documentsIngested |-> Len(documents),
                                                 chunksCreated |-> Len(SampleChunks)],
                                    !.documents = documents]
             ELSE /\ UNCHANGED store
                  /\ ingest' = [Failed(msg) EXCEPT !.documents = documents]
    /\ scriptFrame

----------------------------------------------------------------------------
(* The whole system: the server from its start, its clients, the script *)

\* every combination of credentials, DEFAULT_LLM_PROVIDER left at openai
SystemConfigs == {c \in Configs : c.defaultProvider = "openai"}

\* a fresh collection, before anything is ingested
SystemInit ==
    /\ config \in SystemConfigs
    /\ providers = <<>>
    /\ impl \in {"chain", "sequential"}
    /\ store = <<>>
    /\ server = Loading
    /\ storeReady = FALSE
    /\ apiKeyEnv \in ApiKeyEnvs
    /\ http = NoExchange /\ ingest = NoRun /\ prev = NoRetrieval
    /\ calls = [c \in Callers |-> NoCall]
    /\ Idle

Startup ==
    \/ LoadModules
    \/ \E valid \in BOOLEAN, m \in ConfigErrors : StartServer(valid, m)
    \/ \E ok \in BOOLEAN, m \in StoreErrors : StoreInitialized(ok, m)

\* Every body comes in a plain request (the right key, within the limit); the
\* other envelopes come with one body the route accepts and one it rejects.
\* config.nodeEnv === 'production' matters to the global error handler and to
\* the catch-all route only.
Requests ==
    \/ \E b \in ChatBodies : HttpChat(With(Plain, FALSE, b))
    \/ \E e \in Envelopes, b \in {BaseBody, [BaseBody EXCEPT !.message = Str("")]} :
          HttpChat(With(e, FALSE, b))
    \/ \E e \in Unparsed, pr \in BOOLEAN : HttpChat(With(e, pr, BaseBody))
    \/ HttpChatResponds
    \/ \E q \in ContextQueries : HttpContext(With(Plain, FALSE, q))
    \/ \E e \in Envelopes, q \in {Undefined, "How do I start tracing?"} :
          HttpContext(With(e, FALSE, [question |-> q, maxDocs |-> Undefined]))
    \/ HttpContextResponds
    \/ \E b \in TestBodies : HttpTestProvider(With(Plain, FALSE, b))
    \/ \E e \in Envelopes, b \in {[provider |-> Absent], [provider |-> Str("openai")]} :
          HttpTestProvider(With(e, FALSE, b))
    \/ HttpTestResponds
    \/ \E e \in Envelopes : HttpProviders(With(e, FALSE, NoPayload))
    \/ \E e \in Envelopes : HttpHealth(With(e, FALSE, NoPayload))
    \/ \E p \in UnknownPaths, e \in Envelopes, pr \in BOOLEAN :
          HttpUnknown(p, With(e, pr, NoPayload))
    \/ \E b \in IngestBodies, ok \in BOOLEAN, m \in StoreErrors :
          HttpIngest(With(Plain, FALSE, b), ok, m)
    \/ \E e \in Envelopes, b \in {BaseDocument, [BaseDocument EXCEPT !.title = Absent]},
           m \in StoreErrors :
          HttpIngest(With(e, FALSE, b), TRUE, m)
    \/ \E e \in Envelopes, ok \in BOOLEAN, m \in StoreErrors :
          HttpStoreInfo(With(e, FALSE, NoPayload), ok, m)
    \/ \E e \in Envelopes, ok \in BOOLEAN, m \in StoreErrors :
          HttpStoreDelete(With(e, FALSE, NoPayload), ok, m)
    \/ \E b \in SearchBodies, ok \in BOOLEAN, m \in StoreErrors :
          HttpSearch(With(Plain, FALSE, b), ok, m)
    \/ \E e \in Envelopes, m \in StoreErrors :
          HttpSearch(With(e, FALSE, [query |-> Str("tracing"), maxResults |-> Absent]), TRUE, m)
    \/ HttpFinished

\* the steps of askQuestion, getContextForQuestion and testProvider after entry
Continuations ==
    \/ StartRetrieval
    \/ SearchReturns
    \/ \E m \in SearchErrors : SearchFails(m)
    \/ \E t \in Replies, ts \in Timestamps : LLMReplies(t, ts)
    \/ \E m \in LLMErrors : LLMFails(m)
    \/ Return
    \/ ContextSearchReturns
    \/ \E m \in SearchErrors : ContextSearchFails(m)
    \/ \E t \in Replies : TestReplies(t)
    \/ \E m \in LLMErrors : TestFails(m)

Script ==
    \/ IngestRun
    \/ \E ok \in BOOLEAN, m \in StoreErrors : IngestSaved(ok, m)
    \/ \E ok \in BOOLEAN, m \in StoreErrors : IngestInitialized(ok, m)
    \/ \E ok \in BOOLEAN : IngestDeleted(ok)
    \/ \E ok \in BOOLEAN, m \in StoreErrors : IngestAdded(ok, m)

SystemNext == Startup \/ Requests \/ Continuations \/ Script

SystemSpec == SystemInit /\ [][SystemNext]_vars

----------------------------------------------------------------------------
(* Requests in flight together.  The module exports one RAGService and every
   request calls its methods; a call is suspended at each await (the search,
   the LLM invocation) and the steps of other calls run meanwhile.  Arguments
   and locals of a call live in its frame; the instance holds systemPrompt and
   promptTemplate, set in the constructor. *)

QuestionOf(c) == IF c = "first" THEN "How do I start tracing?" ELSE "What is a span?"

\* the frame of a call that has been entered
InFlight(o, q, p, k, inc) ==
    [error |-> "", question |-> q, maxContextDocs |-> k, includeContext |-> inc,
     op |-> o, phase |-> "RETRIEVING", providerName |-> p, relevantDocs |-> <<>>,
     llm |-> Null, llmInput |-> NoInput, result |-> NoResult]

\* a step of call c: its frame is replaced, nothing else is written
Becomes(c, frame) ==
    /\ calls' = [calls EXCEPT ![c] = frame]
    /\ UNCHANGED envVars
    /\ UNCHANGED callVars
    /\ UNCHANGED <<http, ingest, prev>>

\* askQuestion up to the first await: the chain copy selects the provider
\* before the search is started
CallAskQuestion(c, p, k, inc) ==
    /\ Serving /\ calls[c] = NoCall
    /\ LET f == InFlight("ask", QuestionOf(c), DefaultTo(p, Null), k, inc)
       IN IF impl = "chain"
          THEN IF getProviderFails(f.providerName)
               THEN Becomes(c, [f EXCEPT !.phase = "ERROR",
                                         !.error = wrapError(getProviderError(f.providerName))])
               ELSE Becomes(c, [f EXCEPT !.llm = getProvider(f.providerName)])
          ELSE Becomes(c, f)

\* getContextForQuestion up to its await
CallGetContext(c, k) ==
    /\ Serving /\ calls[c] = NoCall
    /\ Becomes(c, InFlight("context", QuestionOf(c), Null, k, FALSE))

\* mutant: the result list is kept on the instance (this.relevantDocs), where
\* every call in flight reads it
CallSearchReturnsOnInstance(c) ==
    /\ calls[c].phase = "RETRIEVING"
    /\ LET f == calls[c]
           docs == similaritySearchWithScore(f.question, f.maxContextDocs)
           seen(d) == IF calls[d].phase \in {"RETRIEVING", "GENERATING"}
                      THEN [calls[d] EXCEPT !.relevantDocs = docs] ELSE calls[d]
           next == IF f.op = "context"
                   THEN [f EXCEPT !.relevantDocs = docs, !.result = contextResult(docs),
                                  !.phase = "RETURNED"]
                   ELSE IF impl = "sequential" /\ getProviderFails(f.providerName)
                   THEN [f EXCEPT !.relevantDocs = docs, !.phase = "ERROR",
                                  !.error = wrapError(getProviderError(f.providerName))]
                   ELSE [f EXCEPT !.relevantDocs = docs,
                                  !.llm = getProvider(f.providerName),
                                  !.llmInput = [context |-> formatContext(docs),
                                                question |-> f.question],
                                  !.phase = "GENERATING"]
       IN /\ calls' = [d \in Callers |-> IF d = c THEN next ELSE seen(d)]
          /\ UNCHANGED envVars
          /\ UNCHANGED callVars
          /\ UNCHANGED <<http, ingest, prev>>

\* the search of call c resolved: getContextForQuestion returns; askQuestion
\* formats the context, (sequential copy) selects the provider, and invokes
\* the LLM chain
CallSearchReturns(c) ==
    /\ calls[c].phase = "RETRIEVING"
    /\ LET f == calls[c]
           docs == similaritySearchWithScore(f.question, f.maxContextDocs)
       IN IF f.op = "context"
          THEN Becomes(c, [f EXCEPT !.relevantDocs = docs, !.result = contextResult(docs),
                                    !.phase = "RETURNED"])
          ELSE IF impl = "sequential" /\ getProviderFails(f.providerName)
          THEN Becomes(c, [f EXCEPT !.relevantDocs = docs, !.phase = "ERROR",
                                    !.error = wrapError(getProviderError(f.providerName))])
          ELSE Becomes(c, [f EXCEPT !.relevantDocs = docs,
                                    !.llm = getProvider(f.providerName),
                                    !.llmInput = [context |-> formatContext(docs),
                                                  question |-> f.question],
                                    !.phase = "GENERATING"])

\* the search of call c rejected
CallSearchFails(c, msg) ==
    /\ calls[c].phase = "RETRIEVING"
    /\ Becomes(c, [calls[c] EXCEPT !.phase = "ERROR",
                                   !.error = IF calls[c].op = "ask" THEN wrapError(msg)
                                             ELSE msg])

\* the LLM replied to call c: the result is built and returned
CallLLMReplies(c, text, ts) ==
    /\ calls[c].phase = "GENERATING"
    /\ LET f == calls[c]
       IN Becomes(c, [f EXCEPT !.phase = "RETURNED",
                               !.result = shapeAnswer(generateResult(f.question, f.providerName,
                                                                     f.relevantDocs, text, ts),
                                                      f.includeContext)])

\* the LLM invocation of call c rejected
CallLLMFails(c, msg) ==
    /\ calls[c].phase = "GENERATING"
    /\ Becomes(c, [calls[c] EXCEPT !.phase = "ERROR", !.error = wrapError(msg)])

\* the caller has its answer; the frame is gone
CallFinish(c) ==
    /\ calls[c].phase \in {"RETURNED", "ERROR"}
    /\ Becomes(c, NoCall)

\* both keyed providers registered, Bedrock not; a collection of MaxStore chunks
ConcurrentInit ==
    /\ config \in {cf \in SystemConfigs : /\ cf.openaiKey /\ cf.anthropicKey
                                          /\ ~cf.bedrockAccessKeyId
                                          /\ ~cf.bedrockSecretAccessKey}
    /\ providers = initializeProviders(config)
    /\ impl \in {"chain", "sequential"}
    /\ store \in {st \in Stores : Len(st) = MaxStore}
    /\ server = Listening
    /\ storeReady = TRUE
    /\ apiKeyEnv = Undefined
    /\ http = NoExchange /\ ingest = NoRun /\ prev = NoRetrieval
    /\ calls = [c \in Callers |-> NoCall]
    /\ Idle

ConcurrentNext ==
    \E c \in Callers :
       \/ \E p \in ProviderArgs, k \in DocLimits, inc \in BOOLEAN :
             CallAskQuestion(c, p, k, inc)
       \/ \E k \in DocLimits : CallGetContext(c, k)
       \/ CallSearchReturns(c)
       \/ \E m \in SearchErrors : CallSearchFails(c, m)
       \/ \E t \in Replies, ts \in Timestamps : CallLLMReplies(c, t, ts)
       \/ \E m \in LLMErrors : CallLLMFails(c, m)
       \/ CallFinish(c)

ConcurrentSpec == ConcurrentInit /\ [][ConcurrentNext]_vars

----------------------------------------------------------------------------
(* Properties *)

\* the `sources` of the value returned to the caller, wherever it sits
ResultSources ==
    IF "sources" \in DOMAIN result THEN result.sources ELSE result.context.sources

Returned(o) == op = o /\ phase = "RETURNED"

\* the position of the first retrieved chunk that carries the source v
FirstIndex(v) ==
    CHOOSE i \in 1..Len(relevantDocs) :
        /\ relevantDocs[i].source = v
        /\ \A j \in 1..(i - 1) : relevantDocs[j].source # v

SourceValues == {relevantDocs[i].source : i \in {j \in 1..Len(relevantDocs) :
                                                   Truthy(relevantDocs[j].source)}}

\* C1: for a non-empty result list, the sources returned by askQuestion and by
\* getContextForQuestion hold each distinct source value of the retrieved
\* chunks exactly once, in order of first appearance, and nothing else.
C1_SourcesOrderedDistinct ==
    ((Returned("ask") \/ Returned("context")) /\ Len(relevantDocs) > 0) =>
        /\ Injective(ResultSources)
        /\ Range(ResultSources) = SourceValues
        /\ \A i, j \in 1..Len(ResultSources) :
              i < j => FirstIndex(ResultSources[i]) < FirstIndex(ResultSources[j])

\* a source occurs in two retrieved chunks with another source in between
C1_Witness ==
    /\ Returned("ask")
    /\ Len(relevantDocs) = 3
    /\ relevantDocs[1].source = relevantDocs[3].source
    /\ Truthy(relevantDocs[2].source)
    /\ relevantDocs[2].source # relevantDocs[1].source
    /\ Len(ResultSources) = 2

\* C2: askQuestion without a provider, with the configured default provider
\* registered: provider selection yields the default provider and does not
\* fail with a provider-not-available error.
C2_DefaultProviderSelected ==
    (op = "ask" /\ providerName = Null /\ selectCalls > 0
        /\ config.defaultProvider \in Range(providers)) =>
        /\ llm = config.defaultProvider
        /\ cause.kind # "provider"

\* C3: in every successful askQuestion metadata.provider names the provider
\* whose client was invoked: the requested one when a name was given, the
\* configured default when none was given.
C3_MetadataProviderIsInvoked ==
    Returned("ask") =>
        /\ Len(invoked) = 1
        /\ result.metadata.provider = invoked[1]
        /\ providerName # Null => invoked[1] = providerName
        /\ providerName = Null => invoked[1] = config.defaultProvider

\* the requested provider is not the first registered one
C3_Witness ==
    /\ Returned("ask")
    /\ providerName # Null
    /\ providerName # providers[1]
    /\ result.metadata.provider = providerName

C5_FullResultKeepsShape ==
    (Returned("ask") /\ includeContext) =>
        /\ {"response", "sources", "metadata"} \subseteq DOMAIN result
        /\ result.context = llmInput.context

\* C6: when the search returns no chunk the context is the sentinel, sources
\* is empty and the document count is 0, and askQuestion still selects a
\* provider and invokes the LLM with the sentinel as context; an error then
\* comes only from the search, the provider selection or the LLM.
C6_EmptyRetrievalStillGenerates ==
    /\ (op = "ask" /\ phase \in {"GENERATING", "SHAPED", "RETURNED"}
          /\ Len(relevantDocs) = 0) =>
          /\ llmInput.context = Sentinel
          /\ selectCalls = 1 /\ Len(invoked) = 1
    /\ (op = "ask" /\ phase \in {"SHAPED", "RETURNED"} /\ Len(relevantDocs) = 0) =>
          /\ genResult.context.sources = <<>>
          /\ genResult.context.documentsUsed = 0
    /\ (Returned("ask") /\ Len(relevantDocs) = 0) => ResultSources = <<>>
    /\ (Returned("context") /\ Len(relevantDocs) = 0) =>
          /\ result.context = Sentinel
          /\ result.sources = <<>>
          /\ result.documentCount = 0
    /\ (op = "ask" /\ phase = "ERROR" /\ Len(store) = 0) =>
          \/ cause.kind \in {"search", "llm"}
          \/ cause.kind = "provider" /\ providerName \notin Range(providers)

C6_Witness ==
    /\ Returned("ask")
    /\ Len(store) = 0
    /\ llmInput.context = Sentinel
    /\ invoked = <<providerName>>

\* C7: when the search or the LLM invocation fails inside askQuestion, the
\* error reaching the caller carries the underlying message unmodified.
C7_MessageUnmodified ==
    (op = "ask" /\ phase = "ERROR" /\ cause.kind \in {"search", "llm"}) =>
        error = cause.message

\* C7 (amended): the error reaching the caller of askQuestion is a new error
\* whose message is the fixed prefix 'Failed to generate response: ' followed
\* by the underlying message verbatim.
C7_MessagePrefixed ==
    (op = "ask" /\ phase = "ERROR" /\ cause.kind \in {"search", "llm"}) =>
        error = "Failed to generate response: " \o cause.message

C7_Witness ==
    /\ op = "ask" /\ phase = "ERROR"
    /\ cause.kind = "llm"
    /\ error # cause.message

\* C8: in one askQuestion the search is called at most once and the LLM is
\* invoked at most once; a failed search is not followed by an LLM invocation,
\* a failed LLM invocation is not followed by a second invocation (of the same
\* or of another provider), and no result is returned after a failure.
C8_NoRetryNoFallback ==
    op = "ask" =>
        /\ searchCalls <= 1
        /\ Len(invoked) <= 1
        /\ cause.kind = "search" => (invoked = <<>> /\ llmInput = NoInput)
        /\ cause.kind = "llm" => (Len(invoked) = 1 /\ searchCalls = 1)
        /\ cause.kind # "none" => (phase = "ERROR" /\ result = NoResult /\ genResult = NoResult)
        /\ phase = "ERROR" => cause.kind # "none"

\* the LLM failed while another provider was registered
C8_Witness ==
    /\ op = "ask" /\ phase = "ERROR"
    /\ cause.kind = "llm"
    /\ Len(providers) > 1
    /\ Len(invoked) = 1

PhaseOrder ==
    <<phase, phase'>> \in
        { <<"IDLE", "RECEIVED">>, <<"RECEIVED", "RETRIEVING">>,
          <<"RETRIEVING", "GENERATING">>, <<"GENERATING", "SHAPED">>,
          <<"SHAPED", "RETURNED">>,
          <<"RECEIVED", "ERROR">>, <<"RETRIEVING", "ERROR">>,
          <<"GENERATING", "ERROR">>, <<"SHAPED", "ERROR">>,
          <<"RETURNED", "IDLE">>, <<"ERROR", "IDLE">> }

\* C9: an askQuestion request passes through RECEIVED, RETRIEVING, GENERATING,
\* SHAPED, RETURNED in this order, or leaves to ERROR; getProvider is never
\* called before the similarity search of the request has been called.
C9_SelectionAfterSearch ==
    [][(op = "ask" \/ op' = "ask") =>
          /\ PhaseOrder
          /\ selectCalls' > 0 => searchCalls' > 0]_vars

\* C10: a retrieved chunk without a source puts the literal "unknown" into the
\* sources computed by askQuestion, as in relevanceScores and in the context
\* header.
C10_UnknownInSources ==
    (op = "ask" /\ phase \in {"SHAPED", "RETURNED"}
        /\ \E i \in 1..Len(relevantDocs) : ~Truthy(relevantDocs[i].source)) =>
        /\ "unknown" \in Range(genResult.context.sources)
        /\ \E i \in 1..Len(relevantDocs) :
              genResult.context.relevanceScores[i].source = "unknown"

----------------------------------------------------------------------------
(* Reading a message back *)

\* the first position of sub in s, 0 when there is none
IndexOf(s, sub) ==
    LET hits == {i \in 1..(Len(s) - Len(sub) + 1) : SubSeq(s, i, i + Len(sub) - 1) = sub}
    IN IF hits = {} THEN 0 ELSE CHOOSE i \in hits : \A j \in hits : i <= j

After(s, marker) == SubSeq(s, IndexOf(s, marker) + Len(marker), Len(s))

RECURSIVE Split(_, _)
Split(s, sep) ==
    IF Len(s) = 0 THEN <<>>
    ELSE IF IndexOf(s, sep) = 0 THEN <<s>>
    ELSE <<SubSeq(s, 1, IndexOf(s, sep) - 1)>>
            \o Split(SubSeq(s, IndexOf(s, sep) + Len(sep), Len(s)), sep)

\* the provider names a provider-not-available message enumerates
ListedProviders(msg) == Split(After(msg, "Available providers: "), ", ")

\* C11: getProvider of a name that is not a key of the registry fails, returns
\* no provider, and its message lists every registered provider name and no
\* other name.
C11_UnavailableListsRegistered ==
    /\ (op \in {"ask", "test"} /\ selectCalls > 0 /\ providerName \notin Range(providers)) =>
          /\ cause.kind = "provider"
          /\ llm = Null /\ invoked = <<>>
    /\ cause.kind = "provider" =>
          /\ providerName \notin Range(providers)
          /\ IndexOf(cause.message, "Available providers: ") > 0
          /\ ListedProviders(cause.message) = providers

\* two providers are registered, a third name is asked for
C11_Witness ==
    /\ op = "test" /\ cause.kind = "provider"
    /\ Len(providers) = 2
    /\ ListedProviders(cause.message) = providers

\* C12: testProvider never throws; it returns {success:true, response} when
\* the provider replied and {success:false, error} when the provider is not
\* registered or its invocation failed; it sends at most one message, the
\* fixed test message, and only to the named provider.
C12_TestProviderReportsAsData ==
    op = "test" =>
        /\ phase \in {"GENERATING", "RETURNED"}
        /\ error = ""
        /\ searchCalls = 0
        /\ Len(invoked) <= 1
        /\ invoked # <<>> => (invoked = <<providerName>> /\ llmInput = TestMessage)
        /\ phase = "RETURNED" =>
              IF result.success
              THEN /\ DOMAIN result = {"success", "response"}
                   /\ cause.kind = "none" /\ Len(invoked) = 1
              ELSE /\ DOMAIN result = {"success", "error"}
                   /\ cause.kind \in {"provider", "llm"}
                   /\ result.error = cause.message
                   /\ cause.kind = "provider" => invoked = <<>>

\* the provider's invocation failed and the failure came back as data
C12_Witness ==
    /\ op = "test" /\ phase = "RETURNED"
    /\ ~result.success
    /\ cause.kind = "llm"
    /\ invoked = <<providerName>>

\* C15: getContextForQuestion calls the search once, selects no provider and
\* invokes no LLM; it returns exactly {context, sources, documentCount} with
\* documentCount the number of chunks the search returned, also when the
\* provider a chat request would use is not registered.
C15_ContextOnlyRetrieves ==
    op = "context" =>
        /\ searchCalls = 1
        /\ selectCalls = 0 /\ invoked = <<>> /\ llm = Null /\ llmInput = NoInput
        /\ phase \in {"RETRIEVING", "RETURNED", "ERROR"}
        /\ phase = "RETURNED" =>
              /\ DOMAIN result = {"context", "sources", "documentCount"}
              /\ result.documentCount = Len(relevantDocs)

\* the default provider is not registered; a chunk without source and a
\* repeated source make the count differ from the number of sources
C15_Witness ==
    /\ Returned("context")
    /\ config.defaultProvider \notin Range(providers)
    /\ Len(relevantDocs) = 3
    /\ result.documentCount = 3
    /\ Len(result.sources) < 3

\* C16: on an unchanged store, for the same question and the same limit,
\* getContextForQuestion and the retrieval of askQuestion give the same
\* sources and the same chunk count, and so does either of them repeated.
C16_SameRetrieval ==
    (prev.k = maxContextDocs /\ prev.q = question /\ phase = "RETURNED"
        /\ op \in {"ask", "context"}) =>
        /\ Retrieval.sources = prev.sources
        /\ Retrieval.count = prev.count

\* askQuestion after getContextForQuestion, on chunks whose count differs from
\* the number of their sources
C16_Witness ==
    /\ Returned("ask")
    /\ prev.k = maxContextDocs /\ prev.q = question
    /\ prev.via = "context"
    /\ prev.count = 3 /\ Len(prev.sources) < 3
    /\ genResult.context.documentsUsed = 3

----------------------------------------------------------------------------
(* The registry at construction and afterwards *)

\* the credentials the three blocks of initializeProviders look at
Credentials(c, p) ==
    CASE p = "openai" -> c.openaiKey
      [] p = "anthropic" -> c.anthropicKey
      [] p = "bedrock" -> c.bedrockAccessKeyId /\ c.bedrockSecretAccessKey

\* C13: once the registry is constructed, a provider name is registered if and
\* only if its credentials are configured (bedrock needs both of its keys);
\* with no provider configured the construction throws instead: the registry
\* is never handed out empty and the process ends with that error
C13_RegisteredIffCredentials ==
    server.state # "loading" =>
        IF \E p \in ProviderNames : Credentials(config, p)
        THEN /\ \A p \in ProviderNames : p \in Range(providers) <=> Credentials(config, p)
             /\ server # Exited(NoProvidersError)
        ELSE /\ server = Exited(NoProvidersError)
             /\ providers = <<>>

\* constructed with one of the two Bedrock keys only: Bedrock is left out
C13_Witness ==
    /\ server.state = "constructed"
    /\ config.bedrockAccessKeyId /\ ~config.bedrockSecretAccessKey
    /\ config.anthropicKey /\ ~config.openaiKey
    /\ providers = <<"anthropic">>

RegistrationOrder == <<"openai", "anthropic", "bedrock">>

\* C14: after construction no step of any request, failed or not, changes the
\* registry: getAvailableProviders returns the same names in the same order,
\* which is the registration order openai, anthropic, bedrock
C14_RegistryNeverMutated ==
    [][server.state # "loading" =>
         /\ providers' = providers
         /\ providers = SelectSeq(RegistrationOrder, LAMBDA p : p \in Range(providers))]_vars

\* a provider test has failed and all three providers are still registered
C14_Witness ==
    /\ http.stage = "responded"
    /\ http.route = TestRoute
    /\ http.status = 200
    /\ http.body.data = [success |-> FALSE, error |-> "401 Incorrect API key provided"]
    /\ providers = RegistrationOrder

----------------------------------------------------------------------------
(* The HTTP layer *)

\* the ChatRequest shape: types as well as values
ChatShapeOK(b) ==
    /\ b.message.t = "string"
    /\ Len(Trim(b.message.s)) >= 1 /\ Len(Trim(b.message.s)) <= 2000
    /\ b.provider.t = "absent" \/ (b.provider.t = "string" /\ b.provider.s \in ProviderNames)
    /\ b.maxContextDocs.t = "absent"
       \/ (b.maxContextDocs.t = "number" /\ b.maxContextDocs.s \in {NatToStr(n) : n \in 1..10})
    /\ b.includeContext.t \in {"absent", "boolean"}

\* C17: a POST /api/chat whose body violates the ChatRequest shape (and that
\* the middleware in front of the route let through) is answered 400, and the
\* orchestrator is not entered for it: no askQuestion, no search, no LLM call
C17_MalformedChatRejected ==
    (/\ http.stage # "idle"
     /\ http.route = ChatRoute
     /\ Gate(http.request) = Pass
     /\ ~ChatShapeOK(http.request.body))
    => /\ http.stage = "responded"
       /\ http.status = 400
       /\ op = "none" /\ searchCalls = 0 /\ invoked = <<>>

\* C18: every error response (status 400 and above) of an /api endpoint has
\* the documented format: a body with success: false and an error description
C18_ErrorsHaveConsistentFormat ==
    (http.stage = "responded" /\ http.status >= 400)
    => /\ "success" \in DOMAIN http.body
       /\ "error" \in DOMAIN http.body
       /\ http.body.success = FALSE

KeyMismatch(req) == req.key = Undefined \/ req.key # apiKeyEnv

C20_InitializeBeforeStoreUse ==
    [][/\ Serving' => storeReady'
       /\ searchCalls' > searchCalls => storeReady
       /\ (http'.stage = "responded" /\ http' # http /\ http'.storeOp # "none") => storeReady
       /\ (ingest'.pc = "delete" /\ ingest.pc # "delete") => ingest'.inits >= 1
       /\ (ingest'.pc = "add" /\ ingest.pc # "add") => ingest'.inits >= 2]_vars

\* the server has issued a search while the script is about to add documents
C20_Witness ==
    /\ searchCalls = 1 /\ storeReady
    /\ ingest.pc = "add" /\ ingest.inits = 2


\* C21: with no provider registered, or when validateConfig or
\* vectorStore.initialize() fails, the process exits with the failure: it
\* never listens and never takes a request, and an exited process stays so
C21_FailedStartNeverServes ==
    [][/\ (server.state = "loading" /\ server' # server
            /\ Len(initializeProviders(config)) = 0)
          => server' = Exited(NoProvidersError)
       /\ (server.state = "constructed" /\ server' # server)
          => \/ server' = Initializing
             \/ \E m \in ConfigErrors : server' = Exited(m)
       /\ (server.state = "initializing" /\ server' # server /\ ~storeReady')
          => \E m \in StoreErrors : server' = Exited(m)
       /\ Serving' => (Len(providers') > 0 /\ storeReady')
       /\ server.state = "exited"
          => (server' = server /\ http' = NoExchange /\ UNCHANGED callVars)
       /\ server'.state = "exited"
          => (server'.error # "" /\ http' = NoExchange /\ searchCalls' = 0
              /\ invoked' = <<>>)]_vars

\* the process died of the empty registry while the ingestion script, a
\* process of its own, ran to its end
C21_Witness ==
    /\ server = Exited(NoProvidersError)
    /\ providers = <<>>
    /\ ingest.pc = "done"


\* the batch handed to addDocuments by the route or by the script, if any
HandedByRoute == IF http.stage = "responded" THEN http.documents ELSE <<>>
HandedByScript == IF ingest.pc = "idle" THEN <<>> ELSE ingest.documents

DistinctIds(batch) ==
    /\ \A i \in 1..Len(batch) : batch[i].metadata.document_id # Undefined
    /\ \A i, j \in 1..Len(batch) :
          batch[i].metadata.document_id = batch[j].metadata.document_id => i = j

\* C22: every Document handed to addDocuments, by the script or by POST
\* /api/admin/ingest, has a document_id in its metadata, and the ids of one
\* batch are pairwise distinct
C22_DocumentsCarryDistinctIds ==
    DistinctIds(HandedByRoute) /\ DistinctIds(HandedByScript)

\* the script's part alone: its batch has ids, distinct by the index
C22_ScriptIdsDistinct == DistinctIds(HandedByScript)


\* the steps of run() in their order: the pairs (pc, next pc) a run may take
RunOrder ==
    { <<"idle", "files">>, <<"files", "initialize">>, <<"initialize", "delete">>,
      <<"delete", "reinitialize">>, <<"reinitialize", "add">>, <<"add", "done">> }

\* C23: the run's steps happen in the order initialize, deleteCollection,
\* initialize, addDocuments; a settled deleteCollection, resolved or rejected,
\* is always followed by the second initialize; any other step's failure ends
\* the run with that error and without a summary
C23_RunOrderAndDeleteTolerated ==
    [][ingest' # ingest =>
         /\ \/ <<ingest.pc, ingest'.pc>> \in RunOrder
            \/ /\ ingest'.pc = "failed"
               /\ ingest.pc \in {"files", "initialize", "reinitialize", "add"}
         /\ ingest.pc = "delete" => (ingest'.pc = "reinitialize" /\ ingest'.inits = 1)
         /\ ingest'.pc = "add" => (ingest'.inits = 2 /\ ingest'.documents = <<>>)
         /\ ingest'.pc = "failed" =>
               (ingest'.error \in StoreErrors /\ ingest'.summary = NoResult)
         /\ ingest'.pc = "done" =>
               (ingest'.error = "" /\ ingest'.summary.documentsIngested = 2
                /\ Len(ingest'.documents) = 2)
         /\ ingest'.pc \notin {"done", "failed"} =>
               (ingest'.summary = NoResult /\ ingest'.error = "")]_vars

\* a run that went through both initializations and returned its summary
\* while the collection still holds a chunk ingested before the samples
C23_Witness ==
    /\ ingest.pc = "done" /\ ingest.inits = 2
    /\ ingest.summary = [documentsIngested |-> 2, chunksCreated |-> 2]
    /\ Len(store) = 3 /\ store[1].source = AdminChunk.source


\* the catalogue's scores written with three decimals
ThreeDecimals(score) ==
    CASE score = 8700 -> "0.870" [] score = 12346 -> "1.235"
      [] score = 4521 -> "0.452" [] score = 3995 -> "0.400"

C26_ScorePerChunk ==
    (Returned("ask") /\ "context" \in DOMAIN result) =>
        LET scores == result.context.relevanceScores
        IN /\ Len(scores) = Len(relevantDocs)
           /\ Len(scores) = result.context.documentsUsed
           /\ \A i \in 1..Len(scores) :
                 /\ DOMAIN scores[i] = {"source", "score"}
                 /\ scores[i].score = relevantDocs[i].score
                 /\ scores[i].source \in {relevantDocs[i].source, "unknown"}
           /\ \A v \in Range(result.context.sources) :
                 \E i \in 1..Len(scores) : scores[i].source = v

\* a full result over three chunks of two sources, one chunk without source
C26_Witness ==
    /\ Returned("ask") /\ "context" \in DOMAIN result
    /\ result.context.documentsUsed = 3
    /\ Len(result.context.sources) < Len(result.context.relevanceScores)
    /\ \E i \in 1..3 : relevantDocs[i].source = NoSource


\* C28: the default reported by GET /api/chat/providers is null or one of
\* the providers listed in the same response
C28_DefaultIsListed ==
    (http.stage = "responded" /\ http.route = "GET /api/chat/providers"
        /\ http.status = 200) =>
        \/ http.body.data.default = Null
        \/ http.body.data.default \in Range(http.body.data.providers)


\* C29: a request under /api that matches no route and passes the rate
\* limiter and the key check is answered 404 with {success: false, error:
\* 'API endpoint not found'}, for every method and in every environment
C29_UnknownApiPathIs404 ==
    (http.stage = "responded" /\ http.route \in UnknownPaths
        /\ Gate(http.request) = Pass) =>
        /\ http.status = 404
        /\ http.body = [success |-> FALSE, error |-> "API endpoint not found"]

\* outside production, and for methods other than GET, the 404 is given
C29_NotFoundOutsideProductionGet ==
    (http.stage = "responded" /\ http.route \in UnknownPaths
        /\ Gate(http.request) = Pass
        /\ ~(http.request.production /\ http.route = "GET /api/unknown")) =>
        /\ http.status = 404
        /\ http.body = [success |-> FALSE, error |-> "API endpoint not found"]


\* C30: a successful POST /api/admin/ingest stores the validated title and
\* source, the values its response echoes, whatever the request's metadata
\* holds; without content the answer is 400 and addDocuments is not called
C30_StoredTitleAndSourceAsValidated ==
    (http.stage = "responded" /\ http.route = IngestRoute
        /\ Gate(http.request) = Pass) =>
        /\ http.status = 200 =>
              /\ Len(http.documents) = 1
              /\ http.documents[1].metadata.title = http.body.data.title
              /\ http.documents[1].metadata.source = http.body.data.source
              /\ http.body.data.title = Trim(http.request.body.title.s)
              /\ http.body.data.source = Trim(http.request.body.source.s)
        /\ ~JsTruthy(http.request.body.content) =>
              (http.status = 400 /\ http.storeOp = "none" /\ http.documents = <<>>)

\* the part about missing content alone
C30_NoContentNoAdd ==
    (http.stage = "responded" /\ http.route = IngestRoute
        /\ Gate(http.request) = Pass /\ ~JsTruthy(http.request.body.content)) =>
        (http.status = 400 /\ http.storeOp = "none" /\ http.documents = <<>>)


StartsWith(s, prefix) == Len(s) >= Len(prefix) /\ SubSeq(s, 1, Len(prefix)) = prefix

\* C27: one askQuestion searches the store once, and the context given to the
\* LLM, sources, relevanceScores and documentsUsed describe the chunks of that
\* one result list, whatever addDocuments or deleteCollection did to the
\* collection after the search
C27_OneSearchConsistentFields ==
    (op = "ask" /\ phase \in {"SHAPED", "RETURNED"}) =>
        LET c == genResult.context
            blocks == Split(llmInput.context, "\n\n---\n\n")
        IN /\ searchCalls = 1
           /\ c.documentsUsed = Len(relevantDocs)
           /\ Len(c.relevanceScores) = c.documentsUsed
           /\ IF c.documentsUsed = 0
              THEN llmInput.context = Sentinel /\ c.sources = <<>>
              ELSE /\ Len(blocks) = c.documentsUsed
                   /\ \A i \in 1..c.documentsUsed :
                         /\ StartsWith(blocks[i], "Source: " \o c.relevanceScores[i].source
                                                     \o " (Relevance: ")
                         /\ c.relevanceScores[i].source # "unknown"
                               => c.relevanceScores[i].source \in Range(c.sources)
                   /\ \A v \in Range(c.sources) :
                         \E i \in 1..c.documentsUsed : c.relevanceScores[i].source = v

\* the collection was deleted, or grew, between the search and the return:
\* a search made now would not give the chunks the result describes
C27_Witness ==
    /\ Returned("ask")
    /\ Len(relevantDocs) > 0
    /\ relevantDocs # similaritySearchWithScore(question, maxContextDocs)
    /\ genResult.context.documentsUsed = Len(relevantDocs)


\* the chunks a call's own search gives while the collection is left alone
OwnChunks(f) == SubSeq(store, 1, Min(f.maxContextDocs, Len(store)))

OwnSources(f) == {OwnChunks(f)[i].source : i \in 1..Len(OwnChunks(f))} \ {NoSource}

\* the frame f of call c holds what c's own question, options and chunks give
Owned(f, c) ==
    /\ f.op # "none" => f.question = QuestionOf(c)
    /\ f.phase \in {"GENERATING", "RETURNED"} => f.relevantDocs = OwnChunks(f)
    /\ (f.op = "ask" /\ f.phase \in {"GENERATING", "RETURNED"}) =>
          /\ f.llm = f.providerName
          /\ f.llmInput.question = QuestionOf(c)
          /\ Len(Split(f.llmInput.context, "\n\n---\n\n")) = Len(OwnChunks(f))
    /\ (f.op = "ask" /\ f.phase = "RETURNED") =>
          /\ f.result.metadata.provider = f.providerName
          /\ IF f.includeContext
             THEN /\ Range(f.result.context.sources) = OwnSources(f)
                  /\ f.result.metadata.question = QuestionOf(c)
                  /\ f.result.context.documentsUsed = Len(OwnChunks(f))
                  /\ \A i \in 1..Len(OwnChunks(f)) :
                        f.result.context.relevanceScores[i].score = OwnChunks(f)[i].score
             ELSE Range(f.result.sources) = OwnSources(f)
    /\ (f.op = "context" /\ f.phase = "RETURNED") =>
          /\ Range(f.result.sources) = OwnSources(f)
          /\ f.result.documentCount = Len(OwnChunks(f))
          /\ Len(Split(f.result.context, "\n\n---\n\n")) = Len(OwnChunks(f))

\* C24: with two calls of askQuestion or getContextForQuestion interleaved at
\* their awaits, a step of one call writes its own frame only (not the
\* registry, the collection or the other call's frame), and each call's
\* context, sources, relevance scores and metadata.provider are those of its
\* own question, options and retrieved chunks
C24_CallsDoNotInterfere ==
    [][/\ providers' = providers /\ store' = store /\ config' = config
       /\ \A c, d \in Callers :
             (c # d /\ calls'[c] # calls[c]) => calls'[d] = calls[d]
       /\ \A c \in Callers : Owned(calls'[c], c)]_vars

\* the first call has returned its full result over two chunks while the
\* second, with another provider and limit, waits for its LLM with a context
\* of its own three chunks
C24_Witness ==
    /\ calls["first"].op = "ask" /\ calls["first"].phase = "RETURNED"
    /\ calls["first"].includeContext
    /\ calls["second"].op = "ask" /\ calls["second"].phase = "GENERATING"
    /\ calls["first"].providerName # calls["second"].providerName
    /\ Len(calls["first"].relevantDocs) = 2
    /\ Len(calls["second"].relevantDocs) = 3
    /\ calls["first"].result.metadata.provider # calls["second"].llm

====
